---- MODULE Spec2Model ----
(***************************************************************************)
(* Queue tracker, status tracker and batch scheduler of network_helper.    *)
(*                                                                         *)
(* The server is one asyncio event loop.  A coroutine keeps the loop until *)
(* it reaches an await that really suspends; `loop` names the request      *)
(* handler that is between two such points (0: the loop is free).          *)
(***************************************************************************)
EXTENDS Integers, Sequences, FiniteSets, TLC

\* ------------------------------------------------------------------ bounds
MaxCalls    == 2   \* HTTP submissions per behaviour
MaxReqs     == 2   \* devices named by one submission
MaxTasks    == 2   \* ExecutionStatus rows per behaviour
MaxLines    == 2   \* log lines of one run
MaxWorkers  == 2   \* largest WORKER_COUNT tried
LiveCalls   == 1   \* HTTP submissions per behaviour of LiveSpec
MaxVersion  == 2   \* largest component of a version number
MaxStrLen   == 5   \* longest version string parsed

\* ------------------------------------------------------------ device names
\* A device name is a sequence of characters; lower() acts on each one.
Names == { <<"s", "1">>, <<"S", "1">>, <<"s", "2">> }

\* a comparison that keeps letter case
Lower_CaseSensitive(s) == s

LowerChar(c) == CASE c = "S" -> "s" [] OTHER -> c

Lower(s) == [i \in DOMAIN s |-> LowerChar(s[i])]

\* ---------------------------------------------------------------- log text
NL == "\n"

Msg == <<"m1", "m2", "m3">>

ErrorLog == <<"Error">>

UnknownLog == <<"Unknown operation type">>

RECURSIVE Join(_)
\* "\n".join(logs)
Join(logs) ==
    IF logs = << >> THEN << >>
    ELSE IF Len(logs) = 1 THEN <<logs[1]>>
    ELSE <<logs[1], NL>> \o Join(Tail(logs))

RECURSIVE Lines(_)
\* the lines of a stored log text, in order
Lines(text) ==
    IF text = << >> THEN << >>
    ELSE IF Head(text) = NL THEN Lines(Tail(text))
    ELSE <<Head(text)>> \o Lines(Tail(text))

\* ------------------------------------------------------------ request data
\* a key the dict does not have
Absent == "<absent>"

None == "<none>"

\* values a client puts in device_type, or NetBox in the platform slug
PlatformValues == {"ios", "IOS", "cisco_ios", "iosxe", "Cisco_XE", "IOS-XE", "junos", ""}

\* values a client puts in operation_type
OpTypes == {"refresh_device", "precheck", "upgrade_auto", "upgrade_manual",
            "cancel_schedule", "upgrade", "Precheck", "reboot"}

\* addresses: a host, or the empty string
Addresses == {"10.0.0.1", ""}

\* str.lower() on the strings above
LowerStr(s) ==
    CASE s = "IOS" -> "ios"
      [] s = "Cisco_XE" -> "cisco_xe"
      [] s = "IOS-XE" -> "ios-xe"
      [] s = "Precheck" -> "precheck"
      [] OTHER -> s

\* dict.get(key, default)
Get(d, key, default) == IF d[key] = Absent THEN default ELSE d[key]

\* request_data handed to run_operation_task: req.dict() of an UpgradeRequest,
\* whose fields include device_type and no platform, or the dict built by
\* trigger_netbox_refresh
RequestData(ep, name, v, ip, op) ==
    IF ep = "upgrade"
    THEN [device_name |-> name, operation_type |-> op, ip_address |-> ip,
          device_type |-> v, platform |-> Absent]
    ELSE [device_name |-> name, operation_type |-> "refresh_device",
          ip_address |-> ip, device_type |-> Absent, platform |-> v]

\* platform_map.get(key, None)
platform_map(key) ==
    IF key \in {"ios", "cisco_ios", "iosxe", "cisco_xe", "ios-xe"}
    THEN "cisco_iosxe"
    ELSE None

\* connect_to_device: the ValueError it raises, or "ok" when it returns the
\* connection parameters; creds: the three credential variables are all set
connect_to_device(device_details, creds) ==
    LET platform == platform_map(LowerStr(Get(device_details, "platform", "")))
    IN  IF ~creds THEN "Missing credentials"
        ELSE IF device_details.ip_address = "" THEN "Missing IP address"
        ELSE IF platform = None THEN "Unsupported platform"
        ELSE "ok"

\* the variant perform_operations hands the request to
Variant(operation_type) ==
    CASE operation_type = "upgrade" -> "execute_upgrade"
      [] operation_type = "precheck" -> "execute_precheck"
      [] operation_type = "upgrade_manual" -> "execute_upgrade_manual"
      [] operation_type = "refresh_device" -> "execute_refresh_device"
      [] operation_type = "cancel_schedule" -> "execute_cancel_schedule"
      [] OTHER -> "unknown"

\* perform_operations up to the call of the variant: "raised" when
\* connect_to_device raises, "returned" when the dispatcher itself answers
\* failed (unknown operation type), else the variant that runs
perform_operations(request_data, creds) ==
    IF connect_to_device(request_data, creds) # "ok" THEN "raised"
    ELSE LET v == Variant(LowerStr(Get(request_data, "operation_type", "not_specified")))
         IN  IF v = "unknown" THEN "returned" ELSE v

\* ------------------------------------------------------------------- state
VARIABLES
    queue,         \* DeviceQueue rows, in insertion order
    exec,          \* ExecutionStatus rows; the index is the task id
    calls,         \* submissions received by this process
    loop,          \* the handler that holds the event loop, 0 if none
    batches,       \* background run_batch_operations calls
    run,           \* run[t]: the coroutine of task t
    worker_count,  \* WORKER_COUNT
    probe          \* one call of a helper function, with its arguments and result

vars == <<queue, exec, calls, loop, batches, run, worker_count, probe>>

Terminal == {"completed", "failed", "warning"}

Holding == {"connecting", "open", "returned", "raised"}

\* index of the first row of q for the device, among the given statuses
RECURSIVE FirstRow(_, _, _, _)
FirstRow(q, name, sts, i) ==
    IF i > Len(q) THEN 0
    ELSE IF Lower(q[i].device_name) = Lower(name) /\ q[i].status \in sts THEN i
    ELSE FirstRow(q, name, sts, i + 1)

RemoveAt(s, i) == SubSeq(s, 1, i - 1) \o SubSeq(s, i + 1, Len(s))

\* no helper call is being looked at
NoProbe == [fn |-> "none"]

Init ==
    /\ queue = << >>
    /\ exec = << >>
    /\ calls = << >>
    /\ loop = 0
    /\ batches = << >>
    /\ run = << >>
    /\ worker_count \in 1..MaxWorkers
    /\ probe = NoProbe

\* ------------------------------------------------------- request handlers
\* calls[c].reqs is the part of the request list the handler has read so far;
\* the list has between 1 and MaxReqs entries
NewCall(ep, api_key_header, api_key) ==
    [ep |-> ep, reqs |-> << >>, pc |-> "pending",
     existing |-> FALSE, results |-> << >>, tasks_data |-> << >>,
     access_token |-> api_key_header, api_key |-> api_key]

\* a call whose handler is gone: answered, or killed with the process
Gone(pc) ==
    [ep |-> "-", reqs |-> << >>, pc |-> pc,
     existing |-> FALSE, results |-> << >>, tasks_data |-> << >>,
     access_token |-> "-", api_key |-> "-"]

\* a call answered before its handler body ran, with the status code sent
Answered(ep, code, api_key_header, api_key) ==
    [Gone(code) EXCEPT !.ep = ep, !.access_token = api_key_header,
                       !.api_key = api_key]

\* values of the access_token header (None: not sent) and of API_KEY
\* (None: not set)
Tokens == {None, "k1", "k2"}

Keys == {None, "k1"}

\* a dependency that lets a request without the header through
get_api_key_AcceptsAbsent(api_key_header, api_key) ==
    IF api_key = None THEN "500"
    ELSE IF api_key_header = api_key \/ api_key_header = None THEN "ok"
    ELSE "403"

\* the dependency of the POST routes: "ok", or the status code it raises
get_api_key(api_key_header, api_key) ==
    IF api_key = None THEN "500"
    ELSE IF api_key_header = api_key THEN "ok"
    ELSE "403"

\* a POST arrives: the dependency is resolved before the handler is called
Arrive(ep, api_key_header, api_key) ==
    LET auth == get_api_key(api_key_header, api_key)
    IN  IF auth = "ok" THEN NewCall(ep, api_key_header, api_key)
        ELSE Answered(ep, auth, api_key_header, api_key)

\* the request the handler is working on
Cur(c) == calls[c].reqs[Len(calls[c].reqs)]

\* POST /upgrade arrives; its dependencies are resolved off the loop
receive_upgrade ==
    /\ Len(calls) < MaxCalls
    /\ \E api_key_header \in Tokens, api_key \in Keys :
          calls' = Append(calls, Arrive("upgrade", api_key_header, api_key))
    /\ UNCHANGED <<queue, exec, loop, batches, run, worker_count, probe>>

\* POST /netbox/refresh arrives and awaits fetch_devices_from_netbox
receive_netbox_refresh ==
    /\ Len(calls) < MaxCalls
    /\ \E api_key_header \in Tokens, api_key \in Keys :
          calls' = Append(calls, Arrive("netbox", api_key_header, api_key))
    /\ UNCHANGED <<queue, exec, loop, batches, run, worker_count, probe>>

\* GET /queue: no dependency on get_api_key; answered with the rows
get_queue ==
    /\ Len(calls) < MaxCalls
    /\ \E api_key_header \in Tokens, api_key \in Keys :
          calls' = Append(calls, Answered("queue", "200", api_key_header, api_key))
    /\ UNCHANGED <<queue, exec, loop, batches, run, worker_count, probe>>

\* the handler body is entered: it runs on the loop up to its return
handler_begin(c) ==
    /\ loop = 0
    /\ calls[c].pc = "pending"
    /\ loop' = c
    /\ calls' = [calls EXCEPT ![c].pc = "check"]
    /\ UNCHANGED <<queue, exec, batches, run, worker_count, probe>>

\* a handler that suspends between the lookup and the insert
AwaitsAfterCheck_Suspends == TRUE

\* does the handler give up the loop between the lookup and the insert?
\* (the loop body has no await)
AwaitsAfterCheck == FALSE

\* a lookup that misses rows already in progress
Existing_QueuedOnly(q, name) == FirstRow(q, name, {"queued"}, 1) # 0

\* a lookup that misses rows still queued
Existing_InProgressOnly(q, name) == FirstRow(q, name, {"in_progress"}, 1) # 0

\* select(DeviceQueue).where(lower(device_name) == name.lower()).first():
\* a row of any status counts
Existing(q, name) == FirstRow(q, name, {"queued", "in_progress"}, 1) # 0

\* for req in requests: the next request is read and looked up
handler_check(c) ==
    /\ loop = c
    /\ calls[c].pc = "check"
    /\ Len(calls[c].reqs) < MaxReqs
    /\ \E name \in Names :
          /\ Existing(queue, name) \/ Len(exec) < MaxTasks
          /\ calls' = [calls EXCEPT
                 ![c].reqs = Append(@, name),
                 ![c].existing = Existing(queue, name),
                 ![c].pc = "branch"]
    /\ loop' = IF AwaitsAfterCheck THEN 0 ELSE c
    /\ UNCHANGED <<queue, exec, batches, run, worker_count, probe>>

Skipped(name) == [device_name |-> name, status |-> "skipped", task_id |-> 0]

Triggered(name, t) == [device_name |-> name, status |-> "triggered", task_id |-> t]

\* if existing_op: results.append(skipped); continue
handler_skip(c) ==
    /\ loop \in {c, IF AwaitsAfterCheck THEN 0 ELSE c}
    /\ calls[c].pc = "branch"
    /\ calls[c].existing
    /\ calls' = [calls EXCEPT
           ![c].results = Append(@, Skipped(Cur(c))),
           ![c].pc = "check"]
    /\ loop' = c
    /\ UNCHANGED <<queue, exec, batches, run, worker_count, probe>>

\* add the DeviceQueue row, then the ExecutionStatus row with a fresh id
handler_insert(c) ==
    /\ loop \in {c, IF AwaitsAfterCheck THEN 0 ELSE c}
    /\ calls[c].pc = "branch"
    /\ ~calls[c].existing
    /\ LET name == Cur(c)
           t    == Len(exec) + 1
       IN  /\ queue' = Append(queue, [device_name |-> name, status |-> "queued"])
           /\ exec' = Append(exec, [device_name |-> name, status |-> "queued",
                                    log_output |-> << >>])
           /\ run' = Append(run, [pc |-> "accepted", logs |-> << >>,
                                  result |-> "none", batch |-> 0,
                                  session |-> "none"])
           /\ calls' = [calls EXCEPT
                  ![c].results = Append(@, Triggered(name, t)),
                  ![c].tasks_data =
                      IF calls[c].ep = "netbox"
                      THEN Append(@, [task_id |-> t, device_name |-> name])
                      ELSE @,
                  ![c].pc = "check"]
    /\ loop' = c
    /\ UNCHANGED <<batches, worker_count, probe>>

\* next(r for r in requests if r.device_name == res["device_name"])
FirstReq(reqs, name) ==
    reqs[CHOOSE i \in DOMAIN reqs :
            reqs[i] = name /\ \A j \in 1..(i - 1) : reqs[j] # name]

RECURSIVE TasksOf(_, _)
\* tasks_data of trigger_upgrade: one entry per triggered result
TasksOf(results, reqs) ==
    IF results = << >> THEN << >>
    ELSE LET res == Head(results)
         IN  (IF res.status = "triggered"
              THEN <<[task_id |-> res.task_id,
                      device_name |-> FirstReq(reqs, res.device_name)]>>
              ELSE << >>) \o TasksOf(Tail(results), reqs)

\* ep: the handler that built the request_data of the tasks
NewBatch(tasks_data, ep) ==
    [tasks |-> tasks_data, ep |-> ep, st |-> "scheduled", sem |-> 0,
     waiters |-> << >>, exc |-> FALSE]

\* the loop is over: schedule run_batch_operations and answer
handler_return(c) ==
    /\ loop = c
    /\ calls[c].pc = "check"
    /\ LET td == IF calls[c].ep = "upgrade"
                 THEN TasksOf(calls[c].results, calls[c].reqs)
                 ELSE calls[c].tasks_data
       IN  /\ batches' = IF td # << >> THEN Append(batches, NewBatch(td, calls[c].ep))
                             ELSE batches
           /\ run' = [t \in DOMAIN run |->
                        IF \E k \in DOMAIN td : td[k].task_id = t
                        THEN [run[t] EXCEPT !.batch = Len(batches) + 1]
                        ELSE run[t]]
           /\ calls' = [calls EXCEPT ![c] = Gone("done")]
    /\ loop' = 0
    /\ UNCHANGED <<queue, exec, worker_count, probe>>

\* ------------------------------------------------------- batch scheduler
TaskIds(td) == [k \in DOMAIN td |-> td[k].task_id]

\* the background task begins: semaphore = asyncio.Semaphore(worker_count)
run_batch_operations(b) ==
    /\ loop = 0
    /\ batches[b].st = "scheduled"
    /\ batches' = [batches EXCEPT ![b].st = "running",
                                  ![b].sem = worker_count,
                                  ![b].waiters = TaskIds(batches[b].tasks)]
    /\ run' = [t \in DOMAIN run |->
                 IF run[t].batch = b THEN [run[t] EXCEPT !.pc = "waiting"] ELSE run[t]]
    /\ UNCHANGED <<queue, exec, calls, loop, worker_count, probe>>

\* a first block that leaves the status as it was
StartStatus_Unset == "queued"

\* status written by the first block of run_operation_task
StartStatus == "running"

\* async with semaphore, the first block of run_operation_task, then
\* perform_operations up to the variant; nothing suspends in between.  The
\* fields of the request are read here for the first time, and os.getenv
\* reads the credentials at every call; NetBox devices without an address
\* were dropped by fetch_devices_from_netbox
run_with_semaphore(t) ==
    /\ loop = 0
    /\ run[t].pc = "waiting"
    /\ LET b == run[t].batch
           r == FirstRow(queue, exec[t].device_name, {"queued"}, 1)
       IN  /\ batches[b].st = "running"
           /\ batches[b].sem > 0
           /\ Head(batches[b].waiters) = t
           /\ batches' = [batches EXCEPT ![b].sem = @ - 1, ![b].waiters = Tail(@)]
           /\ exec' = [exec EXCEPT ![t].status = StartStatus]
           /\ queue' = IF r # 0 THEN [queue EXCEPT ![r].status = "in_progress"] ELSE queue
    /\ \E v \in PlatformValues, ip \in Addresses, op \in OpTypes, creds \in BOOLEAN :
          /\ batches[run[t].batch].ep = "netbox" => ip # ""
          /\ LET request_data == RequestData(batches[run[t].batch].ep,
                                             exec[t].device_name, v, ip, op)
                 entry == perform_operations(request_data, creds)
             IN  run' = [run EXCEPT
                     ![t].pc = IF entry \in {"raised", "returned"} THEN entry
                               ELSE "connecting",
                     ![t].result = IF entry = "returned" THEN "failed" ELSE @]
    /\ UNCHANGED <<calls, loop, worker_count, probe>>

\* a callback that stores the new line in place of the log
append_log_Overwrites(log_output, message) == <<message, NL>>

\* task.log_output = (task.log_output or "") + message + "\n"
append_log(log_output, message) == log_output \o <<message, NL>>

\* base_log: logs.append(msg), then append_log(msg) on the task row
base_log(t) ==
    /\ loop = 0
    /\ \/ run[t].pc = "connecting" /\ run[t].logs = << >>
       \/ run[t].pc = "open" /\ Len(run[t].logs) < MaxLines
    /\ LET msg == Msg[Len(run[t].logs) + 1]
       IN  /\ run' = [run EXCEPT ![t].logs = Append(@, msg)]
           /\ exec' = [exec EXCEPT ![t].log_output = append_log(@, msg)]
    /\ UNCHANGED <<queue, calls, loop, batches, worker_count, probe>>

\* async with AsyncScrapli(**device_connection): opens or raises
open_session(t) ==
    /\ loop = 0
    /\ run[t].pc = "connecting"
    /\ \E ok \in BOOLEAN :
          run' = [run EXCEPT ![t].pc = IF ok THEN "open" ELSE "raised",
                             ![t].session = IF ok THEN "open" ELSE @]
    /\ UNCHANGED <<queue, exec, calls, loop, batches, worker_count, probe>>

\* a variant returns {"status": st, "logs": "\n".join(logs)}; the session closes
op_return(t) ==
    /\ loop = 0
    /\ run[t].pc = "open"
    /\ run[t].logs # << >>
    /\ \E st \in {"completed", "failed", "warning"} :
          run' = [run EXCEPT ![t].pc = "returned", ![t].result = st,
                             ![t].session = "closed"]
    /\ UNCHANGED <<queue, exec, calls, loop, batches, worker_count, probe>>

\* a session block that is left by a fault without closing
SessionAfterFault_Leaks == "open"

\* the session after an exception leaves the async with block
SessionAfterFault == "closed"

\* a fault inside the session block; the context manager closes the session
op_raise(t) ==
    /\ loop = 0
    /\ run[t].pc = "open"
    /\ run' = [run EXCEPT ![t].pc = "raised", ![t].session = SessionAfterFault]
    /\ UNCHANGED <<queue, exec, calls, loop, batches, worker_count, probe>>

\* a mapping that files a failed result under the status Error
StatusOf_Error(result_status) ==
    IF result_status = "failed" THEN "error"
    ELSE IF result_status = "warning" THEN "warning"
    ELSE "completed"

\* result status -> TaskStatus
StatusOf(result_status) ==
    IF result_status = "failed" THEN "failed"
    ELSE IF result_status = "warning" THEN "warning"
    ELSE "completed"

\* a run whose faults escape run_operation_task
CatchesFault_Escapes == FALSE

\* except Exception: every fault of the run is handled here
CatchesFault == TRUE

\* a handler that reports a fault as success
FaultStatus_Completed == "completed"

\* status set by except Exception
FaultStatus == "failed"

\* a slot given back only when the run ends without a fault
SlotsReleased_NormalExitOnly(pc) == IF pc = "raised" THEN 0 ELSE 1

\* slots given back when the async with semaphore block is left
SlotsReleased(pc) == 1

\* log_output written by the last block: the error, the dispatcher's own
\* answer (the only result without a session), or the joined log of the variant
FinalLog(t) ==
    IF run[t].pc = "raised" THEN ErrorLog
    ELSE IF run[t].session = "none" THEN UnknownLog
    ELSE Join(run[t].logs)

\* a last block that deletes the first in_progress row, whatever its device
Dequeue_AnyDevice(q, name) ==
    LET r == CHOOSE i \in 0..Len(q) :
                 /\ i # 0 => q[i].status = "in_progress"
                 /\ \A j \in 1..Len(q) :
                       q[j].status = "in_progress" => i # 0 /\ i <= j
    IN  IF r # 0 THEN RemoveAt(q, r) ELSE q

\* a last block that leaves the row in the table
Dequeue_Keeps(q, name) == q

\* a last block that deletes the first row of the table
Dequeue_FirstRow(q, name) == IF q # << >> THEN Tail(q) ELSE q

\* a last block that looks for the row among those still queued
Dequeue_QueuedRow(q, name) ==
    LET r == FirstRow(q, name, {"queued"}, 1)
    IN  IF r # 0 THEN RemoveAt(q, r) ELSE q

\* rows of q left by the last block for the device
Dequeue(q, name) ==
    LET r == FirstRow(q, name, {"in_progress"}, 1)
    IN  IF r # 0 THEN RemoveAt(q, r) ELSE q

\* the last block of run_operation_task, then the semaphore is released
run_operation_task_finish(t) ==
    /\ loop = 0
    /\ run[t].pc \in {"returned", "raised"}
    /\ LET b == run[t].batch
       IN  IF run[t].pc = "raised" /\ ~CatchesFault
           THEN /\ batches' = [batches EXCEPT ![b].sem = @ + SlotsReleased(run[t].pc),
                                              ![b].exc = TRUE]
                /\ run' = [run EXCEPT ![t].pc = "crashed"]
                /\ UNCHANGED <<queue, exec>>
           ELSE /\ exec' = [exec EXCEPT
                       ![t].status = IF run[t].pc = "raised" THEN FaultStatus
                                     ELSE StatusOf(run[t].result),
                       ![t].log_output = FinalLog(t)]
                /\ queue' = Dequeue(queue, exec[t].device_name)
                /\ batches' = [batches EXCEPT ![b].sem = @ + SlotsReleased(run[t].pc)]
                /\ run' = [run EXCEPT ![t].pc = "done"]
    /\ UNCHANGED <<calls, loop, worker_count, probe>>

\* await asyncio.gather(*tasks): all done, or the first exception
gather_return(b) ==
    /\ loop = 0
    /\ batches[b].st = "running"
    /\ \/ \A k \in DOMAIN batches[b].tasks :
             run[batches[b].tasks[k].task_id].pc = "done"
       \/ batches[b].exc
    /\ batches' = [batches EXCEPT ![b].st = "returned"]
    /\ UNCHANGED <<queue, exec, calls, loop, run, worker_count, probe>>

\* ------------------------------------------------------------ process start
\* a start that keeps the rows of operations that had begun
delete_all_KeepsInProgress(q) == SelectSeq(q, LAMBDA r : r.status = "in_progress")

\* session.exec(delete(DeviceQueue))
delete_all(q) == << >>

\* the process dies and starts again: lifespan deletes every DeviceQueue row
lifespan ==
    /\ queue' = delete_all(queue)
    /\ loop' = 0
    /\ calls' = [c \in DOMAIN calls |->
                   IF calls[c].pc \in {"done", "200", "403", "500"}
                   THEN calls[c]
                   ELSE Gone("dead")]
    /\ batches' = [b \in DOMAIN batches |->
                     IF batches[b].st = "returned" THEN batches[b]
                     ELSE [batches[b] EXCEPT !.st = "dead", !.sem = 0,
                                             !.waiters = << >>, !.exc = FALSE]]
    /\ run' = [t \in DOMAIN run |->
                 IF run[t].pc \in {"done", "crashed"} THEN run[t]
                 ELSE [run[t] EXCEPT !.pc = "abandoned", !.result = "none",
                                     !.session = "none"]]
    /\ UNCHANGED <<exec, worker_count, probe>>

Next ==
    \/ receive_upgrade
    \/ receive_netbox_refresh
    \/ get_queue
    \/ \E c \in 1..MaxCalls : c \in DOMAIN calls /\ handler_begin(c)
    \/ \E c \in 1..MaxCalls : c \in DOMAIN calls /\ handler_check(c)
    \/ \E c \in 1..MaxCalls : c \in DOMAIN calls /\ handler_skip(c)
    \/ \E c \in 1..MaxCalls : c \in DOMAIN calls /\ handler_insert(c)
    \/ \E c \in 1..MaxCalls : c \in DOMAIN calls /\ handler_return(c)
    \/ \E b \in 1..MaxCalls : b \in DOMAIN batches /\ run_batch_operations(b)
    \/ \E t \in 1..MaxTasks : t \in DOMAIN run /\ run_with_semaphore(t)
    \/ \E t \in 1..MaxTasks : t \in DOMAIN run /\ base_log(t)
    \/ \E t \in 1..MaxTasks : t \in DOMAIN run /\ open_session(t)
    \/ \E t \in 1..MaxTasks : t \in DOMAIN run /\ op_return(t)
    \/ \E t \in 1..MaxTasks : t \in DOMAIN run /\ op_raise(t)
    \/ \E t \in 1..MaxTasks : t \in DOMAIN run /\ run_operation_task_finish(t)
    \/ \E b \in 1..MaxCalls : b \in DOMAIN batches /\ gather_return(b)
    \/ lifespan

Spec == Init /\ [][Next]_vars

\* ------------------------------------------------- one process lifetime
\* The event loop runs every coroutine that is ready, and every device
\* operation that was admitted comes to an end.
HandlerStep(c) ==
    /\ c \in DOMAIN calls
    /\ \/ handler_begin(c) \/ handler_check(c) \/ handler_skip(c)
       \/ handler_insert(c) \/ handler_return(c)

BatchStep(b) ==
    b \in DOMAIN batches /\ (run_batch_operations(b) \/ gather_return(b))

TaskStep(t) ==
    /\ t \in DOMAIN run
    /\ \/ run_with_semaphore(t) \/ base_log(t) \/ open_session(t)
       \/ op_return(t) \/ op_raise(t) \/ run_operation_task_finish(t)

LiveNext ==
    \/ Len(calls) < LiveCalls /\ receive_upgrade
    \/ Len(calls) < LiveCalls /\ receive_netbox_refresh
    \/ Len(calls) < LiveCalls /\ get_queue
    \/ \E c \in 1..MaxCalls : HandlerStep(c)
    \/ \E b \in 1..MaxCalls : BatchStep(b)
    \/ \E t \in 1..MaxTasks : TaskStep(t)

Fairness ==
    /\ \A c \in 1..MaxCalls : WF_vars(HandlerStep(c))
    /\ \A b \in 1..MaxCalls : WF_vars(BatchStep(b))
    /\ \A t \in 1..MaxTasks : WF_vars(TaskStep(t))

LiveSpec == Init /\ [][LiveNext]_vars /\ Fairness

\* ------------------------------------------------------- helper functions
\* software_version_check returns {"major", "minor", "patch"} of integers
Versions == [major : 0..MaxVersion, minor : 0..MaxVersion, patch : 0..MaxVersion]

\* a comparison that answers True when any component of the target is higher
is_upgrade_required_AnyComponent(current_version, target_version) ==
    \/ target_version.major > current_version.major
    \/ target_version.minor > current_version.minor
    \/ target_version.patch > current_version.patch

is_upgrade_required(current_version, target_version) ==
    IF target_version.major > current_version.major THEN TRUE
    ELSE IF target_version.major < current_version.major THEN FALSE
    ELSE IF target_version.minor > current_version.minor THEN TRUE
    ELSE IF target_version.minor < current_version.minor THEN FALSE
    ELSE IF target_version.patch > current_version.patch THEN TRUE
    ELSE IF target_version.patch < current_version.patch THEN FALSE
    ELSE FALSE

\* characters of a version string: two digits, the dot and a letter
Chars == {"1", "7", ".", "a"}

Digits == {"1", "7"}

VersionStrings == UNION {[1..n -> Chars] : n \in 0..MaxStrLen}

\* re.sub(r'[^\d.]', '', s)
Strip(s) == SelectSeq(s, LAMBDA c : c \in Digits \/ c = ".")

RECURSIVE Split(_)
\* s.split("."): the fields between the dots, at least one
Split(s) ==
    IF \A i \in DOMAIN s : s[i] # "." THEN <<s>>
    ELSE LET d == CHOOSE i \in DOMAIN s :
                      s[i] = "." /\ \A j \in 1..(i - 1) : s[j] # "."
         IN  <<SubSeq(s, 1, d - 1)>> \o Split(SubSeq(s, d + 1, Len(s)))

DigitValue(c) == IF c = "1" THEN 1 ELSE 7

RECURSIVE Value(_)
\* the number a string of digits spells
Value(f) ==
    IF f = << >> THEN 0
    ELSE 10 * Value(SubSeq(f, 1, Len(f) - 1)) + DigitValue(f[Len(f)])

\* int(f): the number, or the ValueError int raises on the empty string
int(f) == IF f = << >> THEN "ValueError" ELSE Value(f)

\* the dict returned ([empty |-> TRUE] for {}), or the exception raised
software_version_check(software_version) ==
    IF software_version = << >> THEN [empty |-> TRUE]
    ELSE LET parts == Split(Strip(software_version))
             major_version == parts[1]
             minor_version == IF Len(parts) > 1 THEN parts[2] ELSE <<"0">>
             patch_version == IF Len(parts) > 2 THEN parts[3] ELSE <<"0">>
         IN  IF << >> \in {major_version, minor_version, patch_version}
             THEN [raised |-> "ValueError"]
             ELSE [major |-> int(major_version), minor |-> int(minor_version),
                   patch |-> int(patch_version)]

\* one call of software_version_check
call_software_version_check ==
    /\ probe = NoProbe
    /\ \E s \in VersionStrings :
          probe' = [fn |-> "software_version_check", software_version |-> s,
                    ret |-> software_version_check(s)]
    /\ UNCHANGED <<queue, exec, calls, loop, batches, run, worker_count>>

\* FULL_IOS_FILESIZE, in units of the model
FILESIZE == 2

\* the largest FLASH_FREE_SPACE_THRESHOLD, the largest free_size and the
\* largest number of file systems of a listing
MaxThreshold == 3
MaxFree == 3
MaxEntries == 2

\* one file system of the parsed 'show file systems': has_free is whether the
\* free_size key is there
FileSystems ==
    [prefixes : {"flash", "nvram"}, has_free : BOOLEAN, free_size : 0..MaxFree]

\* the file_systems dict in iteration order; the empty one also stands for a
\* parse without the key
Listings ==
    { l \in UNION { [1..n -> FileSystems] : n \in 0..MaxEntries } :
        \A k \in DOMAIN l : ~l[k].has_free => l[k].free_size = 0 }

\* if free_size and free_size < (flash_free_space_threshold - ios_file_size)
TooFull(fs, required) ==
    /\ fs.prefixes = "flash"
    /\ fs.has_free /\ fs.free_size # 0
    /\ fs.free_size < required

\* the for loop: "None" at the first flash entry that is too full, "True"
\* once the loop is through
RECURSIVE ScanFileSystems(_, _)
ScanFileSystems(file_systems, required) ==
    IF file_systems = << >> THEN "True"
    ELSE IF TooFull(Head(file_systems), required) THEN "None"
    ELSE ScanFileSystems(Tail(file_systems), required)

flash_free_space(file_systems, post_download, flash_free_space_threshold) ==
    LET ios_file_size == IF post_download THEN FILESIZE ELSE 0
    IN  IF file_systems # << >> /\ flash_free_space_threshold # 0
        THEN ScanFileSystems(file_systems,
                             flash_free_space_threshold - ios_file_size)
        ELSE "None"

call_flash_free_space ==
    /\ probe = NoProbe
    /\ \E file_systems \in Listings, post_download \in BOOLEAN,
          threshold \in 0..MaxThreshold :
          probe' = [fn |-> "flash_free_space", file_systems |-> file_systems,
                    post_download |-> post_download, threshold |-> threshold,
                    ret |-> flash_free_space(file_systems, post_download,
                                             threshold)]
    /\ UNCHANGED <<queue, exec, calls, loop, batches, run, worker_count>>

\* a dict a caller of perform_operations builds itself, with a platform key
DirectData(name, v, ip, op) ==
    [device_name |-> name, operation_type |-> op, ip_address |-> ip,
     device_type |-> Absent, platform |-> v]

\* one call of perform_operations: on the request_data of either handler, or
\* on a dict with both operation_type and platform
call_perform_operations ==
    /\ probe = NoProbe
    /\ \E shape \in {"upgrade", "netbox", "direct"}, name \in Names,
          v \in PlatformValues, ip \in Addresses, op \in OpTypes, creds \in BOOLEAN :
          LET request_data == IF shape = "direct" THEN DirectData(name, v, ip, op)
                              ELSE RequestData(shape, name, v, ip, op)
          IN  probe' = [fn |-> "perform_operations", shape |-> shape,
                        request_data |-> request_data, creds |-> creds,
                        error |-> connect_to_device(request_data, creds),
                        ret |-> perform_operations(request_data, creds)]
    /\ UNCHANGED <<queue, exec, calls, loop, batches, run, worker_count>>

\* one call of is_upgrade_required
call_is_upgrade_required ==
    /\ probe = NoProbe
    /\ \E c \in Versions, t \in Versions :
          probe' = [fn |-> "is_upgrade_required", current_version |-> c,
                    target_version |-> t, ret |-> is_upgrade_required(c, t),
                    back |-> is_upgrade_required(t, c)]
    /\ UNCHANGED <<queue, exec, calls, loop, batches, run, worker_count>>

\* the call is over
call_return ==
    /\ probe # NoProbe
    /\ probe' = NoProbe
    /\ UNCHANGED <<queue, exec, calls, loop, batches, run, worker_count>>

FnNext ==
    \/ call_perform_operations
    \/ call_is_upgrade_required
    \/ call_software_version_check
    \/ call_flash_free_space
    \/ call_return

FnSpec == Init /\ [][FnNext]_vars

\* =======================================================================
\* The operation variants.  One call of a variant is followed statement by
\* statement from the moment its session is open; probe is the frame of the
\* call.  model_ok, upgrade_needed, flash_free and file_in_flash are what the
\* parsers make of the device's answers, env_set whether FULL_IOS_FILENAME and
\* FULL_IOS_FILESIZE are set; every command may be reported failed.

\* max_retries of the download poll
max_retries == 15

Sizes == 0..(FILESIZE + 1)

ScheduleTimes == {None, "", "2025-11-20 08:59:34", "tomorrow"}

Regions == {None, "emea"}

AppletStates == {"pending", "running", "none"}

\* check_commands of the precheck
check_commands ==
    <<"show file systems", "show boot", "show version",
      "show mac address-table", "show ip protocols", "show ip arp",
      "show cdp neighbors detail", "show ip interface brief",
      "show interface status", "show power inline", "show running-config">>

\* names bound in upgrade_manual_task.py by its import statements
manual_imports ==
    {"verify_target_model", "verify_file_exist", "flash_free_space",
     "software_version_check"}

\* a conversion that falls back to a default time
convert_date_time_to_applet_cron_format_Defaults(date_time_str) ==
    IF date_time_str = "2025-11-20 08:59:34" THEN "59 8 20 11 3"
    ELSE "0 0 1 1 0"

\* convert_date_time_to_applet_cron_format: the cron string, or the
\* ValueError raised when neither a format nor the parser matches
convert_date_time_to_applet_cron_format(date_time_str) ==
    IF date_time_str = "2025-11-20 08:59:34" THEN "59 8 20 11 3"
    ELSE "ValueError"

\* the frame of a call that has just opened its session
Frame(fn, schedule_time, region, env_set, model_ok, upgrade_needed, flash_free, file_in_flash) ==
    [fn |-> fn, pc |-> "version", schedule_time |-> schedule_time,
     region |-> region, env_set |-> env_set, model_ok |-> model_ok,
     upgrade_needed |-> upgrade_needed, flash_free |-> flash_free,
     file_in_flash |-> file_in_flash, sent |-> {}, failed |-> "none",
     after |-> {}, result |-> "none", applet |-> "none",
     applet_before |-> "unchecked", download_status |-> "none",
     current_size |-> 0, previous_size |-> 0, retries |-> 0, samples |-> 0,
     last |-> -1, prev |-> -1, i |-> 0, region_url_set |-> FALSE,
     target_ios_url |-> "none", parsed |-> TRUE, updates |-> << >>,
     written |-> "none"]

\* conn.send_command / send_configs: cmd goes to the device, which may report
\* it failed; after collects what is sent once a failure has been reported
Send(rec, cmd, failed) ==
    [rec EXCEPT !.sent = @ \cup {cmd},
                !.after = IF rec.failed # "none" THEN @ \cup {cmd} ELSE @,
                !.failed = IF @ = "none" /\ failed THEN cmd ELSE @]

\* return {"status": status, "logs": ...}
Return(rec, status) == [rec EXCEPT !.pc = "returned", !.result = status]

\* an exception leaves the variant
Raise(rec, exc) == [rec EXCEPT !.pc = "raised", !.result = exc]

Goto(rec, pc) == [rec EXCEPT !.pc = pc]

\* a status derivation that takes a raised run for a completed one
OutcomeStatus_RaisedCompleted(rec) ==
    IF rec.pc = "raised" THEN "completed" ELSE StatusOf(rec.result)

\* the terminal status run_operation_task records for the call
OutcomeStatus(rec) ==
    IF rec.pc = "raised" THEN FaultStatus ELSE StatusOf(rec.result)

Over(rec) == rec.pc \in {"returned", "raised"}

\* ---------------------------------------------------- execute_upgrade_auto
call_execute_upgrade_auto ==
    /\ probe = NoProbe
    /\ \E schedule_time \in ScheduleTimes, region \in Regions,
          env_set \in BOOLEAN, model_ok \in BOOLEAN,
          upgrade_needed \in BOOLEAN, flash_free \in BOOLEAN,
          file_in_flash \in BOOLEAN :
          probe' = Frame("execute_upgrade_auto", schedule_time, region,
                         env_set, model_ok, upgrade_needed, flash_free,
                         file_in_flash)
    /\ UNCHANGED <<queue, exec, calls, loop, batches, run, worker_count>>

\* show version, the model gate and the version gate; a failed command
\* parses to nothing
auto_check_version ==
    /\ probe.fn = "execute_upgrade_auto" /\ probe.pc = "version"
    /\ \E failed \in BOOLEAN :
          LET r == Send(probe, "show version", failed)
          IN  probe' = IF failed \/ ~probe.model_ok THEN Return(r, "failed")
                       ELSE IF ~probe.upgrade_needed THEN Return(r, "completed")
                       ELSE Goto(r, "space")
    /\ UNCHANGED <<queue, exec, calls, loop, batches, run, worker_count>>

\* a free-space step that answers a full flash by clearing it
auto_check_space_CleansFlash ==
    /\ probe.fn = "execute_upgrade_auto" /\ probe.pc = "space"
    /\ \E failed \in BOOLEAN, push_failed \in BOOLEAN, busy \in BOOLEAN,
          free_after \in BOOLEAN :
          LET r == Send(probe, "show file systems", failed)
          IN  probe' = IF failed THEN Raise(r, "AttributeError")
                       ELSE IF ~probe.flash_free
                            THEN (LET pushed == Send(r, "event_applet_clean_flash",
                                                     push_failed)
                                  IN  IF push_failed \/ ~free_after
                                      THEN Return(pushed, "failed")
                                      ELSE Goto(pushed, "file"))
                       ELSE Goto(r, "file")
    /\ UNCHANGED <<queue, exec, calls, loop, batches, run, worker_count>>

\* show file systems and the free-space gate
auto_check_space ==
    /\ probe.fn = "execute_upgrade_auto" /\ probe.pc = "space"
    /\ \E failed \in BOOLEAN :
          LET r == Send(probe, "show file systems", failed)
          IN  probe' = IF failed THEN Raise(r, "AttributeError")
                       ELSE IF ~probe.flash_free THEN Return(r, "failed")
                       ELSE Goto(r, "file")
    /\ UNCHANGED <<queue, exec, calls, loop, batches, run, worker_count>>

\* the clean-up of the flash, entered with free_space false and no file
clean_flash(rec, push_failed, busy, free_after, recheck_failed) ==
    LET pushed == Send(rec, "event_applet_clean_flash", push_failed)
        polled == Send(Send(pushed, "event manager run CLEAN_FLASH", FALSE),
                       "show event manager policy active | i CLEAN_FLASH",
                       FALSE)
        again  == Send(polled, "show file systems", recheck_failed)
    IN  IF push_failed THEN Return(pushed, "failed")
        ELSE IF busy THEN Goto(polled, "http")
        ELSE IF recheck_failed THEN Raise(again, "AttributeError")
        ELSE IF ~free_after THEN Return(again, "failed")
        ELSE Goto(again, "http")

\* the file name and size of the environment, show flash, and the branches on
\* free_space and file_exist
auto_check_file ==
    /\ probe.fn = "execute_upgrade_auto" /\ probe.pc = "file"
    /\ \E failed \in BOOLEAN, push_failed \in BOOLEAN, busy \in BOOLEAN,
          free_after \in BOOLEAN, recheck_failed \in BOOLEAN :
          LET r          == Send(probe, "show flash", failed)
              free_space == probe.flash_free
              file_exist == ~failed /\ probe.file_in_flash
          IN  probe' = IF ~probe.env_set THEN Return(probe, "failed")
                       ELSE IF ~free_space /\ file_exist THEN Return(r, "failed")
                       ELSE IF ~free_space /\ ~file_exist
                            THEN clean_flash(r, push_failed, busy, free_after,
                                             recheck_failed)
                       ELSE Goto(r, "http")
    /\ UNCHANGED <<queue, exec, calls, loop, batches, run, worker_count>>

\* http_client_source_set: True, False or None
http_client_source_set(rec, tacacs_failed, tacacs_found, intf_found, config_failed) ==
    LET t == Send(rec, "show running-config | i ip tacacs source-interface",
                  tacacs_failed)
        s == IF ~tacacs_failed /\ tacacs_found THEN t
             ELSE Send(t, "show interfaces", FALSE)
        source_interface == (~tacacs_failed /\ tacacs_found) \/ intf_found
        c == Send(s, "ip http client source-interface", config_failed)
    IN  IF ~source_interface THEN [rec |-> s, ret |-> "None"]
        ELSE [rec |-> c, ret |-> IF config_failed THEN "False" ELSE "True"]

auto_http_client_source ==
    /\ probe.fn = "execute_upgrade_auto" /\ probe.pc = "http"
    /\ \E tacacs_failed \in BOOLEAN, tacacs_found \in BOOLEAN,
          intf_found \in BOOLEAN, config_failed \in BOOLEAN :
          LET h == http_client_source_set(probe, tacacs_failed, tacacs_found,
                                          intf_found, config_failed)
          IN  probe' = IF h.ret = "True" THEN Goto(h.rec, "save")
                       ELSE Return(h.rec, "failed")
    /\ UNCHANGED <<queue, exec, calls, loop, batches, run, worker_count>>

\* write memory after the source interface is set
auto_save ==
    /\ probe.fn = "execute_upgrade_auto" /\ probe.pc = "save"
    /\ \E failed \in BOOLEAN :
          LET r == Send(probe, "write memory", failed)
          IN  probe' = IF failed THEN Return(r, "failed") ELSE Goto(r, "wait")
    /\ UNCHANGED <<queue, exec, calls, loop, batches, run, worker_count>>

\* while True: one pass of the wait for a pending download applet
auto_wait_download_applet ==
    /\ probe.fn = "execute_upgrade_auto" /\ probe.pc = "wait"
    /\ \E failed \in BOOLEAN, answer \in AppletStates :
          LET r == [Send(probe,
                         "show event manager policy active | i CopyIOSImage",
                         failed)
                    EXCEPT !.applet = IF failed THEN "none" ELSE answer]
          IN  probe' = IF r.applet \in {"pending", "running"} THEN r
                       ELSE Goto(r, "download")
    /\ UNCHANGED <<queue, exec, calls, loop, batches, run, worker_count>>

\* os.getenv(f"{region.upper()}_HTTP_FILE_SERVER_URL",
\*           os.getenv("DEFAULT_HTTP_FILE_SERVER_URL"))
target_ios_url(region, region_url_set) ==
    IF region = None THEN "AttributeError"
    ELSE IF region_url_set THEN "region" ELSE "default"

\* the download applet is rendered for the region, pushed and run
auto_download ==
    /\ probe.fn = "execute_upgrade_auto" /\ probe.pc = "download"
    /\ \E region_url_set \in BOOLEAN, push_failed \in BOOLEAN,
          run_failed \in BOOLEAN :
          LET url == target_ios_url(probe.region, region_url_set)
              e == [probe EXCEPT !.region_url_set = region_url_set]
              p == Send([e EXCEPT !.target_ios_url = url], "ios_download.j2",
                        push_failed)
              r == Send(p, "event manager run CopyIOSImage", run_failed)
          IN  probe' = IF url = "AttributeError" THEN Raise(e, "AttributeError")
                       ELSE IF push_failed THEN Return(p, "failed")
                       ELSE IF run_failed THEN Return(r, "failed")
                       ELSE Goto(r, "sampling")
    /\ UNCHANGED <<queue, exec, calls, loop, batches, run, worker_count>>

\* what one dir flash: shows: no listing, a listing without the file, the
\* file with its size, or a fault while the answer is read
Shown == {"nodir", "nofile", "file", "fault"}

\* verify_ios_downloading: one pass of the loop, from its condition to the
\* next evaluation of the condition
verify_ios_downloading(rec, shown, size) ==
    LET r == [Send(rec, "dir flash", FALSE) EXCEPT
                !.samples = @ + 1,
                !.prev = rec.last,
                !.last = IF shown = "file" THEN size
                         ELSE IF shown = "fault" THEN -2 ELSE -1,
                !.previous_size = IF shown \in {"nodir", "fault"} THEN @
                                  ELSE rec.current_size,
                !.current_size = IF shown = "file" THEN size ELSE @]
        n == [r EXCEPT !.retries = @ + 1]
    IN  IF rec.retries > max_retries
        THEN [rec EXCEPT !.download_status = "False"]
        ELSE IF shown = "fault" THEN [r EXCEPT !.download_status = "False"]
        ELSE IF \/ ( r.current_size > 0 /\ r.previous_size > 0
                     /\ r.current_size > r.previous_size )
                \/ r.current_size = FILESIZE
             THEN [r EXCEPT !.download_status = "True"]
        ELSE IF n.current_size < FILESIZE THEN n
        ELSE [n EXCEPT !.download_status = "True"]

\* download_status = await verify_ios_downloading(conn)
auto_verify_download ==
    /\ probe.fn = "execute_upgrade_auto" /\ probe.pc = "sampling"
    /\ \E shown \in Shown, size \in Sizes :
          LET r == verify_ios_downloading(probe, shown, size)
          IN  probe' = IF r.download_status = "none" THEN r
                       ELSE IF r.download_status = "True" THEN Goto(r, "install")
                       ELSE Return(r, "failed")
    /\ UNCHANGED <<queue, exec, calls, loop, batches, run, worker_count>>

\* the schedule time is converted, the install applet rendered and pushed
auto_install_applet ==
    /\ probe.fn = "execute_upgrade_auto" /\ probe.pc = "install"
    /\ \E failed \in BOOLEAN :
          LET schedule_time == probe.schedule_time
              schedule_date_time ==
                  IF schedule_time \in {None, ""} THEN None
                  ELSE convert_date_time_to_applet_cron_format(schedule_time)
              r == Send(probe, "ios_file_install.j2", failed)
          IN  probe' = IF schedule_date_time = "ValueError"
                       THEN Raise(probe, "ValueError")
                       ELSE IF schedule_time \notin {None, ""}
                               /\ schedule_date_time = None
                       THEN Return(probe, "failed")
                       ELSE IF failed THEN Return(r, "failed")
                       ELSE IF schedule_time = None THEN Raise(r, "TypeError")
                       ELSE Goto(r, "persist")
    /\ UNCHANGED <<queue, exec, calls, loop, batches, run, worker_count>>

\* write memory after the install applet; the run is over
auto_persist ==
    /\ probe.fn = "execute_upgrade_auto" /\ probe.pc = "persist"
    /\ \E failed \in BOOLEAN :
          LET r == Send(probe, "write memory 2", failed)
          IN  probe' = IF failed THEN Return(r, "failed")
                       ELSE Return(r, "completed")
    /\ UNCHANGED <<queue, exec, calls, loop, batches, run, worker_count>>

\* -------------------------------------------------- execute_upgrade_manual
call_execute_upgrade_manual ==
    /\ probe = NoProbe
    /\ \E env_set \in BOOLEAN, model_ok \in BOOLEAN,
          upgrade_needed \in BOOLEAN, flash_free \in BOOLEAN,
          file_in_flash \in BOOLEAN :
          probe' = Frame("execute_upgrade_manual", None, None, env_set,
                         model_ok, upgrade_needed, flash_free, file_in_flash)
    /\ UNCHANGED <<queue, exec, calls, loop, batches, run, worker_count>>

\* the statements of execute_upgrade_manual from rec.pc to the next command
manual_step(rec, failed, answer) ==
    CASE rec.pc = "version" ->
           LET r == Send(rec, "show version", failed)
           IN  IF failed \/ ~rec.model_ok THEN Return(r, "failed")
               ELSE IF "is_upgrade_required" \notin manual_imports
                    THEN Raise(r, "NameError")
               ELSE IF ~rec.upgrade_needed THEN Return(r, "completed")
               ELSE Goto(r, "space")
      [] rec.pc = "space" ->
           LET r == Send(rec, "show file systems", failed)
           IN  IF failed THEN Raise(r, "AttributeError")
               ELSE IF ~rec.flash_free THEN Return(r, "failed")
               ELSE Goto(r, "file")
      [] rec.pc = "file" ->
           LET r == Send(rec, "show flash", failed)
           IN  IF ~rec.env_set THEN Return(rec, "failed")
               ELSE IF failed \/ ~rec.file_in_flash THEN Return(r, "failed")
               ELSE Goto(r, "save")
      [] rec.pc = "save" ->
           LET r == Send(rec, "write memory", failed)
           IN  IF failed THEN Return(r, "failed") ELSE Goto(r, "pending")
      [] rec.pc = "pending" ->
           LET r == [Send(rec,
                          "show event manager policy active | i InstallIOSImage",
                          failed)
                     EXCEPT !.applet_before = IF failed THEN "none" ELSE answer]
           IN  IF r.applet_before \in {"pending", "running"}
               THEN Return(r, "failed")
               ELSE Goto(r, "install")
      [] rec.pc = "install" ->
           LET r == Send(rec, "ios_file_install.j2", failed)
           IN  IF failed THEN Return(r, "failed") ELSE Goto(r, "persist")
      [] rec.pc = "persist" ->
           LET r == Send(rec, "write memory 2", failed)
           IN  IF failed THEN Return(r, "failed") ELSE Goto(r, "trigger")
      [] rec.pc = "trigger" ->
           LET r == Send(rec, "event manager run InstallIOSImage", failed)
           IN  IF failed THEN Return(r, "failed") ELSE Goto(r, "poll")
      [] rec.pc = "poll" ->
           LET r == [Send(rec,
                          "show event manager policy active | i InstallIOSImage",
                          failed)
                     EXCEPT !.applet = IF failed THEN "none" ELSE answer]
           IN  IF r.applet \in {"pending", "running"} THEN r
               ELSE Return(r, "completed")

execute_upgrade_manual ==
    /\ probe.fn = "execute_upgrade_manual" /\ ~Over(probe)
    /\ \E failed \in BOOLEAN, answer \in AppletStates :
          probe' = manual_step(probe, failed, answer)
    /\ UNCHANGED <<queue, exec, calls, loop, batches, run, worker_count>>

\* --------------------------------------------------------- execute_precheck
call_execute_precheck ==
    /\ probe = NoProbe
    /\ probe' = Frame("execute_precheck", None, None, TRUE, TRUE, TRUE, TRUE,
                      TRUE)
    /\ UNCHANGED <<queue, exec, calls, loop, batches, run, worker_count>>

\* a loop that gives up at the first command reported failed
precheck_command_StopsOnFailure ==
    /\ probe.fn = "execute_precheck" /\ probe.pc = "version"
    /\ probe.i < Len(check_commands)
    /\ \E failed \in BOOLEAN :
          LET r == [Send(probe, check_commands[probe.i + 1], failed)
                    EXCEPT !.i = @ + 1]
          IN  probe' = IF failed THEN Return(r, "failed") ELSE r
    /\ UNCHANGED <<queue, exec, calls, loop, batches, run, worker_count>>

\* for command in check_commands: the next command is sent and its result kept
precheck_command ==
    /\ probe.fn = "execute_precheck" /\ probe.pc = "version"
    /\ probe.i < Len(check_commands)
    /\ \E failed \in BOOLEAN :
          probe' = [Send(probe, check_commands[probe.i + 1], failed)
                    EXCEPT !.i = @ + 1]
    /\ UNCHANGED <<queue, exec, calls, loop, batches, run, worker_count>>

\* the results are written to the file
precheck_save ==
    /\ probe.fn = "execute_precheck" /\ probe.pc = "version"
    /\ probe.i = Len(check_commands)
    /\ \E written \in BOOLEAN :
          probe' = Return([probe EXCEPT !.written = IF written THEN "True"
                                                   ELSE "False"],
                          IF written THEN "completed" ELSE "failed")
    /\ UNCHANGED <<queue, exec, calls, loop, batches, run, worker_count>>

\* ------------------------------------------------- execute_cancel_schedule
call_execute_cancel_schedule ==
    /\ probe = NoProbe
    /\ probe' = Frame("execute_cancel_schedule", None, None, TRUE, TRUE, TRUE,
                      TRUE, TRUE)
    /\ UNCHANGED <<queue, exec, calls, loop, batches, run, worker_count>>

\* a removal whose failure is not looked at
cancel_applet_IgnoresFailure ==
    /\ probe.fn = "execute_cancel_schedule" /\ probe.pc = "version"
    /\ \E failed \in BOOLEAN :
          probe' = Goto(Send(probe, "no event manager applet InstallIOSImage",
                             failed), "save")
    /\ UNCHANGED <<queue, exec, calls, loop, batches, run, worker_count>>

\* the applet is removed and the configuration saved
cancel_applet ==
    /\ probe.fn = "execute_cancel_schedule" /\ probe.pc = "version"
    /\ \E failed \in BOOLEAN :
          LET r == Send(probe, "no event manager applet InstallIOSImage", failed)
          IN  probe' = IF failed THEN Return(r, "failed") ELSE Goto(r, "save")
    /\ UNCHANGED <<queue, exec, calls, loop, batches, run, worker_count>>

cancel_save ==
    /\ probe.fn = "execute_cancel_schedule" /\ probe.pc = "save"
    /\ \E failed \in BOOLEAN :
          LET r == Send(probe, "write memory", failed)
          IN  probe' = IF failed THEN Return(r, "failed")
                       ELSE Return(r, "completed")
    /\ UNCHANGED <<queue, exec, calls, loop, batches, run, worker_count>>

\* -------------------------------------------------- execute_refresh_device
\* names bound in refresh_device.py by its import statements
refresh_imports ==
    {"asyncio", "Optional", "LogCallback", "base_log", "AsyncScrapli", "os",
     "datetime"}

\* the phase the three ifs leave in the variable
Phase(upgrade_required, file_flag, space_flag) ==
    IF ~upgrade_required THEN "Phase_2"
    ELSE IF ~file_flag \/ ~space_flag THEN "Phase_0"
    ELSE "Phase_1"

call_execute_refresh_device ==
    /\ probe = NoProbe
    /\ \E parsed \in BOOLEAN, upgrade_needed \in BOOLEAN :
          probe' = [Frame("execute_refresh_device", None, "emea", TRUE, TRUE,
                          upgrade_needed, TRUE, TRUE)
                    EXCEPT !.parsed = parsed]
    /\ UNCHANGED <<queue, exec, calls, loop, batches, run, worker_count>>

\* the body of execute_refresh_device from show version to its return
refresh_body(rec, failed, file_flag, space_flag) ==
    LET r  == Send(rec, "show version", failed)
        u1 == [r EXCEPT !.updates = Append(@, "Device_Record")]
        u2 == [u1 EXCEPT !.updates =
                 Append(@, Phase(rec.upgrade_needed, file_flag, space_flag))]
    IN  IF failed \/ ~rec.parsed THEN Return(r, "failed")
        ELSE IF "switch_data_new" \notin refresh_imports
             THEN Raise(r, "NameError")
        ELSE IF {"software_version_check", "is_upgrade_required", "file_flag",
                 "space_flag"} \ refresh_imports # {}
             THEN Raise(u1, "NameError")
        ELSE Return(u2, "completed")

execute_refresh_device ==
    /\ probe.fn = "execute_refresh_device" /\ ~Over(probe)
    /\ \E failed \in BOOLEAN, file_flag \in BOOLEAN, space_flag \in BOOLEAN :
          probe' = refresh_body(probe, failed, file_flag, space_flag)
    /\ UNCHANGED <<queue, exec, calls, loop, batches, run, worker_count>>

\* the variant has left its session and run_operation_task has its outcome
variant_return ==
    /\ probe # NoProbe /\ probe.fn # "none" /\ Over(probe)
    /\ probe' = NoProbe
    /\ UNCHANGED <<queue, exec, calls, loop, batches, run, worker_count>>

OpNext ==
    \/ call_execute_upgrade_auto
    \/ auto_check_version
    \/ auto_check_space
    \/ auto_check_file
    \/ auto_http_client_source
    \/ auto_save
    \/ auto_wait_download_applet
    \/ auto_download
    \/ auto_verify_download
    \/ auto_install_applet
    \/ auto_persist
    \/ call_execute_upgrade_manual
    \/ execute_upgrade_manual
    \/ call_execute_precheck
    \/ precheck_command
    \/ precheck_save
    \/ call_execute_cancel_schedule
    \/ cancel_applet
    \/ cancel_save
    \/ call_execute_refresh_device
    \/ execute_refresh_device
    \/ variant_return

\* the event loop resumes the variant whenever the device has answered, and
\* the device answers every command (or the command times out)
OpSpec == Init /\ [][OpNext]_vars /\ WF_vars(OpNext)

\* =================================================================== claims
\* the claims' own reading of "names compared case-insensitively"
CaseFold(s) == [i \in DOMAIN s |-> IF s[i] = "S" THEN "s" ELSE s[i]]

TriggeredOnly(results) == SelectSeq(results, LAMBDA r : r.status = "triggered")

\* C1: the queue table never holds two DeviceQueue rows whose device names
\* are equal when compared case-insensitively, whatever submissions, task
\* starts, task completions and restarts have happened.
C1_OneRowPerDevice ==
    \A i, j \in DOMAIN queue :
        i # j => CaseFold(queue[i].device_name) # CaseFold(queue[j].device_name)

\* after a restart a device is queued again and a handler has just refused a
\* differently-cased name of it
C1_Witness ==
    /\ \E t \in DOMAIN run : run[t].pc = "abandoned"
    /\ \E c \in DOMAIN calls, i \in DOMAIN queue :
          /\ calls[c].pc = "check"
          /\ calls[c].results # << >>
          /\ LET res == calls[c].results[Len(calls[c].results)]
             IN  /\ res.status = "skipped"
                 /\ res.device_name # queue[i].device_name
                 /\ CaseFold(res.device_name) = CaseFold(queue[i].device_name)

\* C2: when a row exists for d1 (queued or in_progress) and the handler works
\* on a request for d2 that differs from d1 only in letter case, its step
\* answers 'skipped' and changes no queue row, no task record, no batch and no
\* run; and the batch a handler schedules holds its triggered results only.
C2_CaseVariantSkipped ==
    [][\A c \in DOMAIN calls :
          /\ ( /\ calls[c].pc = "branch"
               /\ calls'[c].pc = "check"
               /\ \E i \in DOMAIN queue :
                     /\ queue[i].device_name # Cur(c)
                     /\ CaseFold(queue[i].device_name) = CaseFold(Cur(c)) )
             => /\ calls'[c].results = Append(calls[c].results, Skipped(Cur(c)))
                /\ UNCHANGED <<queue, exec, batches, run>>
          /\ ( calls[c].pc = "check" /\ calls'[c].pc = "done" )
             => LET trig == TriggeredOnly(calls[c].results)
                IN  IF trig = << >> THEN batches' = batches
                    ELSE /\ Len(batches') = Len(batches) + 1
                         /\ TaskIds(batches'[Len(batches')].tasks)
                               = [k \in DOMAIN trig |-> trig[k].task_id]
    ]_vars

\* a request for the other spelling of a device whose run is in progress has
\* been answered 'skipped'
C2_Witness ==
    \E c \in DOMAIN calls, i \in DOMAIN queue :
        /\ calls[c].pc = "check"
        /\ calls[c].results # << >>
        /\ queue[i].status = "in_progress"
        /\ calls[c].results[Len(calls[c].results)].status = "skipped"
        /\ calls[c].results[Len(calls[c].results)].device_name # queue[i].device_name
        /\ CaseFold(calls[c].results[Len(calls[c].results)].device_name)
              = CaseFold(queue[i].device_name)

\* C3: the lookup and the insert of one submission are not interleaved with
\* those of another: only one handler is between its lookup and its insert,
\* and the answer of its lookup still describes the queue table.
C3_CheckThenInsertAtomic ==
    /\ \A c, d \in DOMAIN calls :
          calls[c].pc = "branch" /\ calls[d].pc = "branch" => c = d
    /\ \A c \in DOMAIN calls :
          calls[c].pc = "branch" =>
              (calls[c].existing <=> Existing(queue, Cur(c)))

\* one submission is between its lookup and its insert while another is in
\* flight, and a row for another spelling of a device it accepted is refused
C3_Witness ==
    \E c, d \in DOMAIN calls :
        /\ c # d
        /\ calls[d].pc = "pending"
        /\ loop = c
        /\ calls[c].pc = "branch"
        /\ calls[c].existing
        /\ \E k \in DOMAIN calls[c].results :
              /\ calls[c].results[k].status = "triggered"
              /\ CaseFold(calls[c].results[k].device_name) = CaseFold(Cur(c))


SessionOpen(t) == t \in DOMAIN run /\ run[t].pc = "open"

\* C4: with WORKER_COUNT = k no more than k sessions are open at once across
\* all batches.
C4_AtMostKSessions ==
    Cardinality({t \in DOMAIN run : SessionOpen(t)}) <= worker_count

\* C5: no two open sessions are to the same device (names compared
\* case-insensitively), and while a session is open the DeviceQueue row of its
\* device is there, in_progress, so that no second operation is accepted.
C5_OneSessionPerDevice ==
    /\ \A t, u \in DOMAIN run :
          SessionOpen(t) /\ SessionOpen(u) /\ t # u =>
              CaseFold(exec[t].device_name) # CaseFold(exec[u].device_name)
    /\ \A t \in DOMAIN run :
          SessionOpen(t) =>
              \E i \in DOMAIN queue :
                  /\ CaseFold(queue[i].device_name) = CaseFold(exec[t].device_name)
                  /\ queue[i].status = "in_progress"

\* a session is open and the lookup for another spelling of its device has
\* found the row
C5_Witness ==
    \E t \in DOMAIN run, c \in DOMAIN calls :
        /\ SessionOpen(t)
        /\ calls[c].pc = "branch"
        /\ calls[c].existing
        /\ Cur(c) # exec[t].device_name
        /\ CaseFold(Cur(c)) = CaseFold(exec[t].device_name)

\* C6: a task record is created Queued; its status changes only from Queued
\* to Running, in the step that admits its operation, and from Running to a
\* terminal status; a terminal status never changes.
C6_StatusMonotone ==
    [][/\ \A t \in DOMAIN exec' :
             t \notin DOMAIN exec => exec'[t].status = "queued"
       /\ \A t \in DOMAIN exec :
             /\ exec'[t].status # exec[t].status =>
                   \/ /\ exec[t].status = "queued"
                      /\ exec'[t].status = "running"
                      /\ run[t].pc = "waiting"
                   \/ /\ exec[t].status = "running"
                      /\ exec'[t].status \in Terminal
             /\ run[t].pc = "waiting" /\ run'[t].pc \in Holding =>
                   exec'[t].status = "running"
    ]_vars

\* a task has gone through Queued, Running and Warning
C6_Witness ==
    \E t \in DOMAIN exec : exec[t].status = "warning" /\ run[t].pc = "done"

IsPrefix(a, b) == Len(a) <= Len(b) /\ SubSeq(b, 1, Len(a)) = a

\* C7: the stored log of a terminal task holds every line streamed during
\* its run, in order; after a fault the message follows the lines logged.
C7_TerminalLogComplete ==
    \A t \in DOMAIN exec :
        exec[t].status \in Terminal =>
            IsPrefix(run[t].logs, Lines(exec[t].log_output))

\* C8: in the step that makes a task terminal the DeviceQueue row of its
\* device is gone; a request is refused only while a row for its device
\* exists, and an accepted request gets a task id not used before.
C8_TerminalFreesDevice ==
    [][/\ \A t \in DOMAIN exec :
             exec[t].status \notin Terminal /\ exec'[t].status \in Terminal =>
                 \A i \in DOMAIN queue' :
                     CaseFold(queue'[i].device_name) # CaseFold(exec[t].device_name)
       /\ \A c \in DOMAIN calls :
             calls[c].pc = "branch" /\ calls'[c].pc = "check" =>
                 LET res == calls'[c].results[Len(calls'[c].results)]
                 IN  IF \E i \in DOMAIN queue :
                            CaseFold(queue[i].device_name) = CaseFold(Cur(c))
                     THEN res.status = "skipped"
                     ELSE /\ res.status = "triggered"
                          /\ res.task_id \notin DOMAIN exec
                          /\ res.task_id \in DOMAIN exec'
    ]_vars

\* within one process lifetime a device whose first task is terminal has been
\* accepted again under a new task id
C8_Witness ==
    /\ \A t \in DOMAIN run : run[t].pc # "abandoned"
    /\ \E t, u \in DOMAIN exec :
          /\ t < u
          /\ exec[t].status \in Terminal
          /\ exec[t].device_name = exec[u].device_name
          /\ exec[u].status = "queued"

BatchTasks(b) == {batches[b].tasks[k].task_id : k \in DOMAIN batches[b].tasks}

\* C9: run_batch_operations returns only when every task of the batch is
\* terminal; the step that makes a task Failed changes no sibling's record or
\* run; and every slot of a batch is either free or held by a task that has
\* not finished, so a failed task keeps no sibling waiting.
C9_BatchIndependent ==
    [][/\ \A b \in DOMAIN batches' :
             batches'[b].st = "returned" =>
                 \A t \in BatchTasks(b)' : exec'[t].status \in Terminal
       /\ \A b \in DOMAIN batches' :
             batches'[b].st = "running" =>
                 batches'[b].sem
                   + Cardinality({t \in BatchTasks(b)' : run'[t].pc \in Holding})
                   = worker_count
       /\ \A t \in DOMAIN exec :
             exec[t].status # "failed" /\ exec'[t].status = "failed" =>
                 \A u \in DOMAIN exec :
                     u # t => exec'[u] = exec[u] /\ run'[u] = run[u]
    ]_vars

\* a batch of two has returned: one task Failed by a fault, the other Completed
C9_Witness ==
    \E b \in DOMAIN batches :
        /\ batches[b].st = "returned"
        /\ Len(batches[b].tasks) = 2
        /\ \E t, u \in BatchTasks(b) :
              /\ exec[t].status = "failed" /\ exec[t].log_output = ErrorLog
              /\ exec[u].status = "completed"


\* C10: a task beyond the cap waits and is not dropped: every accepted task
\* is eventually admitted (its status leaves Queued) and eventually reaches a
\* terminal status, given that admitted operations come to an end.
C10_EveryTaskTerminates ==
    \A t \in 1..MaxTasks :
        /\ (t \in DOMAIN exec) ~> (t \in DOMAIN exec /\ exec[t].status # "queued")
        /\ (t \in DOMAIN exec) ~> (t \in DOMAIN exec /\ exec[t].status \in Terminal)

\* with one worker, the second task of a batch of two has waited for the slot
\* of the first, which ended by a fault, and has completed
C10_Witness ==
    /\ worker_count = 1
    /\ \E b \in DOMAIN batches :
          /\ Len(batches[b].tasks) = 2
          /\ exec[batches[b].tasks[1].task_id].log_output = ErrorLog
          /\ run[batches[b].tasks[2].task_id].pc = "done"
          /\ exec[batches[b].tasks[2].task_id].status = "completed"

\* C11: when connection-parameter resolution fails, the run raises before
\* any session exists; such a run is left only by the last block, which writes
\* Failed and removes the queue row of the device, and it does come to that:
\* the task ends Failed with no session ever opened.
C11_ResolutionFailureFails ==
    /\ [][\A t \in DOMAIN run :
             /\ run[t].pc = "waiting" /\ run'[t].pc = "raised" =>
                    /\ run'[t].session = "none"
                    /\ exec'[t].log_output = exec[t].log_output
             /\ run[t].pc = "raised" /\ run[t].session = "none"
                  /\ run'[t] # run[t] =>
                    /\ run'[t].pc = "done"
                    /\ run'[t].session = "none"
                    /\ exec'[t].status = "failed"
                    /\ \A i \in DOMAIN queue' :
                          CaseFold(queue'[i].device_name)
                              # CaseFold(exec[t].device_name)
       ]_vars
    /\ \A t \in 1..MaxTasks :
          (t \in DOMAIN run /\ run[t].pc = "raised" /\ run[t].session = "none")
              ~> (t \in DOMAIN run /\ exec[t].status = "failed"
                    /\ run[t].session = "none")

\* a task submitted through POST /upgrade has ended Failed by the error of the
\* resolution, with no session, no line logged and its queue row gone
C11_Witness ==
    \E t \in DOMAIN run :
        /\ run[t].pc = "done"
        /\ batches[run[t].batch].ep = "upgrade"
        /\ run[t].session = "none"
        /\ run[t].logs = << >>
        /\ exec[t].status = "failed"
        /\ exec[t].log_output = ErrorLog
        /\ queue = << >>

\* C12: no terminal task holds an open session, and a session is open only
\* while its run is inside the session block: a return and a fault both close it.
C12_TerminalSessionClosed ==
    \A t \in DOMAIN run :
        /\ exec[t].status \in Terminal => run[t].session # "open"
        /\ run[t].session = "open" => run[t].pc = "open"

\* one task ended Failed by a fault raised inside its session and another
\* ended by a return, both with the session closed
C12_Witness ==
    \E t, u \in DOMAIN run :
        /\ exec[t].status = "failed" /\ exec[t].log_output = ErrorLog
        /\ run[t].session = "closed"
        /\ exec[u].status \in Terminal /\ exec[u].log_output # ErrorLog
        /\ run[u].session = "closed"

\* C13: while a task is Running, a step changes its stored log only by adding
\* one line and its newline at the end, the stored lines are the lines logged
\* so far in the order they were logged, and a step that appends to one task
\* leaves the log of every other task as it was.
C13_LogAppendOnly ==
    [][\A t \in DOMAIN exec :
          exec[t].status = "running" /\ exec'[t].status = "running" =>
              /\ IsPrefix(exec[t].log_output, exec'[t].log_output)
              /\ Lines(exec'[t].log_output) = run'[t].logs
              /\ exec'[t].log_output # exec[t].log_output =>
                    /\ Len(exec'[t].log_output) = Len(exec[t].log_output) + 2
                    /\ exec'[t].log_output[Len(exec'[t].log_output)] = NL
                    /\ \A u \in DOMAIN exec :
                          u # t => exec'[u].log_output = exec[u].log_output
    ]_vars

\* two Running tasks have both logged, one of them two lines
C13_Witness ==
    \E t, u \in DOMAIN exec :
        /\ t # u
        /\ exec[t].status = "running" /\ exec[u].status = "running"
        /\ Len(run[t].logs) = 2
        /\ Len(run[u].logs) >= 1
        /\ Lines(exec[t].log_output) = run[t].logs
        /\ Lines(exec[u].log_output) = run[u].logs

\* C14: when one submission names a device twice and the first of the two
\* was accepted, the second is answered 'skipped', the queue table holds one
\* row for the device, the call has created one task record for it, and the
\* batch the handler schedules holds one task for it, the one that was
\* triggered.
C14_SameDeviceTwice ==
    [][\A c \in DOMAIN calls :
          ( /\ calls[c].pc = "check"
            /\ Len(calls[c].reqs) = 2
            /\ CaseFold(calls[c].reqs[1]) = CaseFold(calls[c].reqs[2])
            /\ calls[c].results[1].status = "triggered" )
          => LET dev   == CaseFold(calls[c].reqs[1])
                 first == calls[c].results[1].task_id
             IN  /\ calls[c].results[2].status = "skipped"
                 /\ Cardinality({i \in DOMAIN queue :
                                   CaseFold(queue[i].device_name) = dev}) = 1
                 /\ {t \in DOMAIN exec :
                        t >= first /\ CaseFold(exec[t].device_name) = dev} = {first}
                 /\ calls'[c].pc = "done" =>
                       /\ Len(batches') = Len(batches) + 1
                       /\ TaskIds(batches'[Len(batches')].tasks) = <<first>>
                       /\ batches'[Len(batches')].tasks[1].device_name
                             = calls[c].reqs[1]
    ]_vars

\* a POST /upgrade call has read the same name twice and answered
\* 'triggered', then 'skipped'
C14_Witness ==
    \E c \in DOMAIN calls :
        /\ calls[c].ep = "upgrade"
        /\ calls[c].pc = "check"
        /\ Len(calls[c].reqs) = 2
        /\ calls[c].reqs[1] = calls[c].reqs[2]
        /\ calls[c].results[1].status = "triggered"
        /\ calls[c].results[2].status = "skipped"

\* C15: a process start empties the queue table whatever it held and changes
\* no task record; a run the previous process left unfinished is never taken
\* up again and its record keeps its status; and the device of such a run is
\* accepted again (no row is left to refuse it).
C15_StartClearsQueueOnly ==
    [][/\ lifespan =>
             /\ queue' = << >>
             /\ exec' = exec
             /\ \A t \in DOMAIN run :
                   run[t].pc \notin {"done", "crashed"} => run'[t].pc = "abandoned"
       /\ \A t \in DOMAIN run :
             run[t].pc = "abandoned" => run'[t] = run[t] /\ exec'[t] = exec[t]
       /\ \A c \in DOMAIN calls :
             ( /\ calls[c].pc = "branch" /\ calls'[c].pc = "check"
               /\ \A u \in DOMAIN run :
                     CaseFold(exec[u].device_name) = CaseFold(Cur(c))
                         => run[u].pc \in {"abandoned", "done"} )
             => calls'[c].results[Len(calls'[c].results)].status = "triggered"
    ]_vars

\* a task left Running by the previous process is still Running, and its
\* device has been accepted again under a new task that has completed
C15_Witness ==
    \E t, u \in DOMAIN exec :
        /\ t < u
        /\ run[t].pc = "abandoned"
        /\ exec[t].status = "running"
        /\ CaseFold(exec[u].device_name) = CaseFold(exec[t].device_name)
        /\ exec[u].status = "completed"

\* the five aliases of the supported platform
Aliases == {"ios", "cisco_ios", "iosxe", "cisco_xe", "ios-xe"}

\* C16: a POST /upgrade request whose platform is one of the five aliases,
\* in any letter case, passes parameter resolution when the credentials and
\* the address are there.
C16_AliasResolves ==
    ( /\ probe.fn = "perform_operations"
      /\ probe.shape = "upgrade"
      /\ probe.creds
      /\ probe.request_data.ip_address # ""
      /\ LowerStr(probe.request_data.device_type) \in Aliases )
    => probe.ret # "raised"

\* the variant each documented operation kind stands for
Documented ==
    [refresh_device |-> "execute_refresh_device", precheck |-> "execute_precheck",
     upgrade_auto |-> "execute_upgrade_auto", upgrade_manual |-> "execute_upgrade_manual",
     cancel_schedule |-> "execute_cancel_schedule"]

\* C17: a request that passes parameter resolution and whose operation_type
\* is one of the five documented kinds is handed to the variant of that kind.
C17_DocumentedKindsDispatched ==
    ( /\ probe.fn = "perform_operations"
      /\ probe.error = "ok"
      /\ probe.request_data.operation_type \in DOMAIN Documented )
    => probe.ret = Documented[probe.request_data.operation_type]

\* target strictly greater than current in the order on (major, minor, patch)
LexGreater(t, c) ==
    \/ t.major > c.major
    \/ t.major = c.major /\ t.minor > c.minor
    \/ t.major = c.major /\ t.minor = c.minor /\ t.patch > c.patch

\* C20: is_upgrade_required(c, t) is true exactly when t is strictly greater
\* than c in lexicographic order on (major, minor, patch); it is false for
\* t = c, and it is never true in both directions.
C20_UpgradeRequiredIsLexGreater ==
    probe.fn = "is_upgrade_required" =>
        /\ probe.ret <=> LexGreater(probe.target_version, probe.current_version)
        /\ probe.target_version = probe.current_version => ~probe.ret
        /\ ~(probe.ret /\ probe.back)

\* the major component decides although minor and patch of the target are lower
C20_Witness ==
    /\ probe.fn = "is_upgrade_required"
    /\ probe.current_version = [major |-> 1, minor |-> 2, patch |-> 2]
    /\ probe.target_version = [major |-> 2, minor |-> 0, patch |-> 0]
    /\ probe.ret
    /\ ~probe.back

\* C18: applying the queue removal of the last block for a device a second
\* time, right after the first, leaves the table as the first left it, in
\* every state the queue table can be in.
C18_DequeueIdempotent ==
    \A name \in Names :
        Dequeue(Dequeue(queue, name), name) = Dequeue(queue, name)

\* the last block of a task has removed the row of its device while the row
\* of another device is in progress; a second removal finds nothing
C18_Witness ==
    \E t \in DOMAIN run :
        /\ run[t].pc = "done"
        /\ Len(queue) = 1
        /\ queue[1].status = "in_progress"
        /\ CaseFold(queue[1].device_name) # CaseFold(exec[t].device_name)
        /\ Dequeue(queue, exec[t].device_name) = queue

\* the limit the docstring of run_batch_operations names
DocumentedLimit == 10

\* C19: in a batch of at most 10 tasks no task waits for another to finish:
\* whenever a task of the batch has not been admitted, a slot is free.
C19_TenInParallel ==
    \A b \in DOMAIN batches :
        batches[b].st = "running" /\ Len(batches[b].tasks) <= DocumentedLimit =>
            \A t \in BatchTasks(b) :
                run[t].pc = "waiting" => batches[b].sem > 0

\* the k-th dot-separated field of the stripped string, 0 when it is absent
\* or empty
FieldOrZero(s, k) ==
    LET parts == Split(Strip(s))
    IN  IF k > Len(parts) THEN 0 ELSE Value(parts[k])

\* C21: software_version_check returns without error on every string: the
\* empty result for the empty string, else the triple of the first three
\* fields of the stripped string, a missing or empty field read as 0.
C21_VersionParseTotal ==
    probe.fn = "software_version_check" =>
        /\ probe.ret # [raised |-> "ValueError"]
        /\ probe.software_version = << >> => probe.ret = [empty |-> TRUE]
        /\ probe.software_version # << >> =>
              probe.ret = [major |-> FieldOrZero(probe.software_version, 1),
                           minor |-> FieldOrZero(probe.software_version, 2),
                           patch |-> FieldOrZero(probe.software_version, 3)]

Auto(rec) == rec.fn = "execute_upgrade_auto"

Manual(rec) == rec.fn = "execute_upgrade_manual"

Busy == {"pending", "running"}

\* C23: an automatic upgrade without a schedule time in which every check
\* passes, every command succeeds and the download is confirmed pushes the
\* install applet, saves the configuration and ends Completed, the install
\* applet not triggered.
C23_UnscheduledCompletes ==
    ( /\ Auto(probe) /\ Over(probe)
      /\ probe.schedule_time = None /\ probe.region # None
      /\ probe.failed = "none" /\ probe.download_status = "True" )
    => /\ OutcomeStatus(probe) = "completed"
       /\ "ios_file_install.j2" \in probe.sent
       /\ "write memory 2" \in probe.sent
       /\ "event manager run InstallIOSImage" \notin probe.sent

\* C24: an automatic upgrade that finds too little free space and no target
\* file pushes and triggers the clean-flash applet and checks the space again:
\* it does not end for lack of space before the clean-up was tried.
C24_CleanFlashBeforeGivingUp ==
    ( /\ Auto(probe) /\ probe.pc = "returned"
      /\ probe.env_set /\ probe.model_ok /\ probe.upgrade_needed
      /\ ~probe.flash_free /\ ~probe.file_in_flash
      /\ probe.failed = "none" )
    => /\ "event_applet_clean_flash" \in probe.sent
       /\ "event manager run CLEAN_FLASH" \in probe.sent

\* C25: the download poll succeeds as soon as a sample exceeds the sample
\* before it or equals the expected size, fails once 15 samples were taken
\* without growth and never samples more often, and fails on a fault.
C25_DownloadPollBounded ==
    Auto(probe) =>
        /\ probe.samples <= max_retries
        /\ probe.pc = "sampling" =>
              /\ ~(probe.prev >= 0 /\ probe.last > probe.prev)
              /\ probe.last # FILESIZE
        /\ probe.download_status = "False" =>
              probe.samples >= max_retries \/ probe.last = -2
        /\ probe.last = -2 => probe.download_status = "False"

\* C26: once its session is open every automatic upgrade comes to a terminal
\* outcome, whatever the device answers: no waiting loop goes on for ever.
C26_AutoTerminates ==
    Auto(probe) ~> (~Auto(probe) \/ Over(probe))

\* C28: a manual upgrade on an eligible device that needs the upgrade, with
\* the file in flash, space free, no install applet pending and every command
\* succeeding, pushes the install applet, triggers it, polls until it is
\* neither pending nor running and ends Completed.
C28_ManualCompletes ==
    ( /\ Manual(probe) /\ Over(probe)
      /\ probe.env_set /\ probe.model_ok /\ probe.upgrade_needed
      /\ probe.flash_free /\ probe.file_in_flash
      /\ probe.applet_before \notin Busy /\ probe.failed = "none" )
    => /\ OutcomeStatus(probe) = "completed"
       /\ "ios_file_install.j2" \in probe.sent
       /\ "event manager run InstallIOSImage" \in probe.sent
       /\ probe.applet \notin Busy

C30_FailedStepEndsRun ==
    ( probe.fn \in {"execute_upgrade_auto", "execute_upgrade_manual",
                    "execute_precheck", "execute_cancel_schedule"}
      /\ probe.failed # "none" )
    => /\ Over(probe)
       /\ OutcomeStatus(probe) = "failed"
       /\ probe.after = {}

Unparseable(schedule_time) ==
    schedule_time \notin {None, "", "2025-11-20 08:59:34"}

C32_RegionUrlOrDefault ==
    ( /\ Auto(probe)
      /\ probe.target_ios_url # "none" \/ probe.result = "AttributeError"
      /\ probe.failed \in {"none", "ios_download.j2",
                           "event manager run CopyIOSImage"} )
    => /\ "ios_download.j2" \in probe.sent
       /\ probe.target_ios_url =
             IF probe.region # None /\ probe.region_url_set THEN "region"
             ELSE "default"

Phases == {"Phase_0", "Phase_1", "Phase_2"}

\* C33: a refresh whose version output parses sends two tracking updates, the
\* device record and then the phase, and ends Completed; one whose version
\* output is missing or does not parse sends none and ends Failed.
C33_RefreshTwoUpdates ==
    ( probe.fn = "execute_refresh_device" /\ Over(probe) )
    => IF probe.parsed /\ probe.failed = "none"
       THEN /\ OutcomeStatus(probe) = "completed"
            /\ Len(probe.updates) = 2
            /\ probe.updates[1] = "Device_Record"
            /\ probe.updates[2] \in Phases
       ELSE /\ OutcomeStatus(probe) = "failed"
            /\ probe.updates = << >>

Cancel(rec) == rec.fn = "execute_cancel_schedule"

Removal == "no event manager applet InstallIOSImage"

\* C34: a cancel-schedule run sends the removal of the install applet and then
\* write memory; a failed removal ends the run Failed with no write memory
\* sent, and the run ends Completed only when both commands succeeded.
C34_CancelRemovesThenPersists ==
    Cancel(probe) =>
        /\ "write memory" \in probe.sent
              => Removal \in probe.sent /\ probe.failed # Removal
        /\ probe.failed = Removal
              => /\ Over(probe) /\ OutcomeStatus(probe) = "failed"
                 /\ "write memory" \notin probe.sent
        /\ ( Over(probe) /\ OutcomeStatus(probe) = "completed" )
              => /\ probe.sent = {Removal, "write memory"}
                 /\ probe.failed = "none"
        /\ ( Over(probe) /\ probe.failed = "none" )
              => OutcomeStatus(probe) = "completed"

C34_Witness ==
    /\ Cancel(probe) /\ Over(probe)
    /\ probe.failed = Removal
    /\ probe.sent = {Removal}
    /\ OutcomeStatus(probe) = "failed"

Precheck(rec) == rec.fn = "execute_precheck"

\* C35: a precheck sends its diagnostic commands in the listed order and
\* nothing else, goes on after a command flagged failed, ends Failed only when
\* the artifact file cannot be written and Completed once it is written.
C35_PrecheckFatalOnlyOnWrite ==
    Precheck(probe) =>
        /\ probe.sent = {check_commands[k] : k \in 1..probe.i}
        /\ probe.i < Len(check_commands) => ~Over(probe)
        /\ Over(probe) =>
              /\ probe.i = Len(check_commands)
              /\ probe.written \in {"True", "False"}
              /\ OutcomeStatus(probe) =
                    IF probe.written = "True" THEN "completed" ELSE "failed"

C35_Witness ==
    /\ Precheck(probe) /\ Over(probe)
    /\ probe.failed = "show boot"
    /\ probe.i = Len(check_commands)
    /\ "show running-config" \in probe.after
    /\ OutcomeStatus(probe) = "completed"

ReadOnly == {"show version", "show file systems", "show flash"}

\* C36: an automatic upgrade that finds the flash too full while the target
\* image is already there never pushes the clean-flash applet or any other
\* configuration, and ends Failed.
C36_FullFlashWithFileFails ==
    ( /\ Auto(probe) /\ "show file systems" \in probe.sent
      /\ ~probe.flash_free /\ probe.file_in_flash )
    => /\ probe.sent \subseteq ReadOnly
       /\ Over(probe)
       /\ OutcomeStatus(probe) = "failed"

C36_Witness ==
    /\ Auto(probe) /\ Over(probe)
    /\ ~probe.flash_free /\ probe.file_in_flash
    /\ probe.sent = {"show version", "show file systems"}
    /\ probe.failed = "none"
    /\ probe.result = "failed"

\* the free space a call of flash_free_space asks for
Required(rec) ==
    rec.threshold - (IF rec.post_download THEN FILESIZE ELSE 0)

\* C37: flash_free_space reports success only for a listing with a flash
\* entry whose free size is at least the required amount; no flash entry, a
\* flash entry with zero or missing free size or one below the required
\* amount give no success.
C37_FlashSpaceNeedsFlashEntry ==
    ( probe.fn = "flash_free_space" /\ probe.ret = "True" )
    => \E k \in DOMAIN probe.file_systems :
          LET fs == probe.file_systems[k]
          IN  /\ fs.prefixes = "flash"
              /\ fs.has_free /\ fs.free_size # 0
              /\ fs.free_size >= Required(probe)

\* queue rows of a device in a state, and task records of a device in a status
EntriesOf(name, st) ==
    { r \in DOMAIN queue : /\ CaseFold(queue[r].device_name) = CaseFold(name)
                           /\ queue[r].status = st }

RecordsOf(name, st) ==
    { t \in DOMAIN exec : /\ CaseFold(exec[t].device_name) = CaseFold(name)
                          /\ exec[t].status = st }

\* no operation of this history was cut off by a restart
Uninterrupted == \A t \in DOMAIN run : run[t].pc # "abandoned"

C39_TerminalStatusMapping ==
    [][ \A t \in DOMAIN exec' :
          /\ exec'[t].status \in {"queued", "running"} \cup Terminal
          /\ ( /\ t \in DOMAIN run /\ run[t].pc \in {"returned", "raised"}
               /\ run'[t].pc = "done" )
             => exec'[t].status =
                   CASE run[t].pc = "raised" -> "failed"
                     [] run[t].result = "failed" -> "failed"
                     [] run[t].result = "warning" -> "warning"
                     [] OTHER -> "completed" ]_vars

C39_Witness ==
    \E t \in DOMAIN run, u \in DOMAIN run :
        /\ run[t].pc = "done" /\ run[t].result = "warning"
        /\ exec[t].status = "warning"
        /\ run[u].pc = "done" /\ exec[u].log_output = ErrorLog
        /\ exec[u].status = "failed"

\* C40: an automatic or manual upgrade of a device whose model is not
\* eligible ends Failed, one of a device already at or past the target
\* version ends Completed, and either has sent nothing but read-only commands.
C40_GatesBeforeAnyChange ==
    ( /\ Auto(probe) \/ Manual(probe)
      /\ probe.failed = "none"
      /\ ~probe.model_ok \/ ~probe.upgrade_needed )
    => /\ probe.sent \subseteq ReadOnly
       /\ Over(probe) =>
             OutcomeStatus(probe) = IF ~probe.model_ok THEN "failed"
                                    ELSE "completed"

====
